---------------------------- MODULE Spec2Model ----------------------------
(***************************************************************************)
(* A model of the `rp` regex find/replace utility (NFJones/replacer).      *)
(*                                                                         *)
(* Three components are modelled, each with its own specification:         *)
(*   SpecScan  - ScanBuffer<T> (src/src/replacer/scan_buffer.rs)           *)
(*   SpecSize  - parse_size / parse_pump_limit (util.rs, main.rs)          *)
(*   Spec      - the command line driver Cli, in its two revisions         *)
(*               (src/src/main.rs and src/src/replacer/cli.rs)             *)
(***************************************************************************)
EXTENDS Integers, Sequences, FiniteSets, TLC

VARIABLES
    \* ---- ScanBuffer<T> fields and its environment ----
    size,           \* ScanBuffer.size
    scan_size,      \* ScanBuffer.scan_size
    default_value,  \* ScanBuffer.default_value
    buffer,         \* ScanBuffer.buffer : Vec<T>
    source,         \* the bytes the stream passed to shift has not delivered yet
    scanLast,       \* what the last call on the ScanBuffer was and what it returned
    scanErrs,       \* number of lines shift wrote with errorln!
    delivered,      \* every byte the stream has delivered so far, in order
    shifts,         \* number of shift calls made so far
    \* ---- size parsing (parse_size, parse_pump_limit) ----
    sizeArg,        \* the pump-limit argument: None or a string (sequence of chars)
    sizePc,         \* "start", "parsed" (parse_size returned), "limit" (parse_pump_limit returned)
    sizeResult,     \* what parse_size returned: Result<i64, CliError>
    pump_limit,     \* what parse_pump_limit returned
    sizeErrs,       \* diagnostic lines written by parse_size with errorln!
    \* ---- the command line driver Cli ----
    rev,            \* the revision of the driver: "main" (main.rs) or "cli" (replacer/cli.rs)
    opts,           \* the parsed command line (clap::ArgMatches / Opts)
    fs,             \* the file system: path -> [status, content]
    stdin,          \* standard input: [ok, content]
    pc,             \* position of the run: "start", "constructed", "files", "stdin", "done"
    pattern,        \* Cli.pattern / ParsedOpts.pattern once resolved
    replacement,    \* Cli.replacement / ParsedOpts.replacement once resolved
    idx,            \* index in opts.files of the next file of the process_files loop
    stdout,         \* the characters written to standard output so far
    stderr,         \* the lines written to standard error so far
    exit,           \* exit status of the process once it has ended
    trace,          \* the reads and writes of files and of standard input so far
    fileLast,       \* the last iteration of the process_files loop: its inputs and effects
    results         \* the Result of each iteration of the process_files loop so far

scanVars == <<size, scan_size, default_value, buffer, source, scanLast,
              scanErrs, delivered, shifts>>

sizeVars == <<sizeArg, sizePc, sizeResult, pump_limit, sizeErrs>>

cliVars == <<rev, opts, fs, stdin, pc, pattern, replacement, idx, stdout,
             stderr, exit, trace, fileLast, results>>

vars == <<scanVars, sizeVars, cliVars>>

\* A component that a specification does not exercise stays in these states.
ScanIdle ==
    /\ size = 0 /\ scan_size = 0 /\ default_value = [cp |-> 0]
    /\ buffer = <<>> /\ source = <<>>
    /\ scanLast = [op |-> "idle"]
    /\ scanErrs = 0 /\ delivered = <<>> /\ shifts = 0

SizeIdle ==
    /\ sizeArg = [some |-> FALSE] /\ sizePc = "idle"
    /\ sizeResult = [some |-> FALSE] /\ pump_limit = 0 /\ sizeErrs = <<>>

CliIdle ==
    /\ rev = "idle" /\ opts = <<>> /\ fs = <<>> /\ stdin = <<>> /\ pc = "idle"
    /\ pattern = [some |-> FALSE] /\ replacement = [some |-> FALSE]
    /\ idx = 0 /\ stdout = <<>> /\ stderr = <<>> /\ exit = [some |-> FALSE]
    /\ trace = <<>> /\ fileLast = [idx |-> 0] /\ results = <<>>

\* Option::None
None == [some |-> FALSE]

\* Option::Some(v)
Some(v) == [some |-> TRUE, val |-> v]

\* Result::Ok(v)
Ok(v) == [ok |-> TRUE, val |-> v]

\* Result::Err(e)
Err(e) == [ok |-> FALSE, err |-> e]

\* Result::unwrap_or / Option::unwrap_or
UnwrapOr(r, d) == IF "ok" \in DOMAIN r
                  THEN (IF r.ok THEN r.val ELSE d)
                  ELSE (IF r.some THEN r.val ELSE d)

-----------------------------------------------------------------------------
(* Bounds *)
MaxSize     == 3    \* largest ScanBuffer.size explored
MaxScanSize == 3    \* largest ScanBuffer.scan_size explored
MaxSource   == 4    \* longest stream content explored
MaxByte     == 1    \* bytes of the stream are drawn from 0..MaxByte
MaxShifts   == 4    \* shift calls per behaviour
MaxDigits   == 3    \* longest numeric prefix of a size string explored
MaxFiles    == 2    \* most file arguments on a command line explored

-----------------------------------------------------------------------------
(* Generic sequence helpers *)

Min(a, b) == IF a <= b THEN a ELSE b

\* all sequences over S of length at most n
SeqUpTo(S, n) == UNION {[1..k -> S] : k \in 0..n}

\* vec![v; n]
VecOf(v, n) == [i \in 1..n |-> v]

-----------------------------------------------------------------------------
(* ScanBuffer<T>                                                           *)

Byte == 0..MaxByte

\* T: Copy + From<u8>.  T is modelled as char: T::from(b) is the scalar value
\* whose code point is b; T also has values that no byte converts to.
FromU8(b) == [cp |-> b]

NonByteT == [cp |-> 256]

T == {FromU8(b) : b \in 0..255} \cup {NonByteT}

\* Vec::rotate_left(mid): the first mid elements move to the end
RotateLeft(v, mid) == SubSeq(v, mid + 1, Len(v)) \o SubSeq(v, 1, mid)

\* Vec::truncate(len): no effect when len >= v.len()
Truncate(v, len) == IF len < Len(v) THEN SubSeq(v, 1, len) ELSE v

\* ScanBuffer::new
New(sz, scan, dflt) ==
    [size |-> sz, scan_size |-> scan, default_value |-> dflt,
     buffer |-> VecOf(dflt, sz)]

\* The outcomes of stream.take(scan_size).read(&mut buffer) on a stream still
\* holding src, with a scratch buffer of scan bytes: an error, or any count
\* up to min(scan, Len(src)); 0 only at end of stream or for an empty scratch.
ReadOutcomes(src, scan) ==
    {[ok |-> FALSE, count |-> 0]} \cup
    {[ok |-> TRUE, count |-> n] :
        n \in {k \in 0..Min(scan, Len(src)) :
                 k > 0 \/ Len(src) = 0 \/ scan = 0}}

\* the per-call scratch buffer vec![b'\0'; scan_size] after count bytes of src
\* were read into it
Scratch(src, scan, count) ==
    [i \in 1..scan |-> IF i <= count THEN src[i] ELSE 0]

\* the body of the and_then closure of shift, for count bytes read
ShiftBufferMutantNoTruncate(buf, sz, scan, src, count) ==
    IF count > 0
    THEN LET data == [i \in 1..scan |-> FromU8(Scratch(src, scan, count)[i])]
             appended == buf \o data
         IN RotateLeft(appended, count)
    ELSE buf

ShiftBufferMutantRotateScan(buf, sz, scan, src, count) ==
    IF count > 0
    THEN LET data == [i \in 1..scan |-> FromU8(Scratch(src, scan, count)[i])]
             appended == buf \o data
         IN Truncate(RotateLeft(appended, scan), sz)
    ELSE buf

ShiftBufferMutantPadOnEmpty(buf, sz, scan, src, count) ==
    LET data == [i \in 1..scan |-> FromU8(Scratch(src, scan, count)[i])]
        appended == buf \o data
    IN Truncate(RotateLeft(appended, IF count > 0 THEN count ELSE scan), sz)

ShiftBufferMutantPrepend(buf, sz, scan, src, count) ==
    IF count > 0
    THEN LET data == [i \in 1..count |-> FromU8(Scratch(src, scan, count)[i])]
         IN Truncate(data \o buf, sz)
    ELSE buf

ShiftBufferMutantRotateBeforeAppend(buf, sz, scan, src, count) ==
    IF count > 0
    THEN LET data == [i \in 1..scan |-> FromU8(Scratch(src, scan, count)[i])]
         IN Truncate(RotateLeft(buf, Min(count, Len(buf))) \o data, sz)
    ELSE buf

ShiftBuffer(buf, sz, scan, src, count) ==
    IF count > 0
    THEN LET data == [i \in 1..scan |-> FromU8(Scratch(src, scan, count)[i])]
             appended == buf \o data
         IN Truncate(RotateLeft(appended, count), sz)
    ELSE buf

InitScan ==
    /\ SizeIdle
    /\ CliIdle
    /\ size \in 0..MaxSize
    /\ scan_size \in 0..MaxScanSize
    /\ default_value \in {FromU8(0), FromU8(MaxByte), NonByteT}
    /\ buffer = New(size, scan_size, default_value).buffer
    /\ source \in SeqUpTo(Byte, MaxSource)
    /\ scanLast = [op |-> "new", ret |-> 0, ok |-> TRUE,
                   old |-> buffer, bytes |-> <<>>]
    /\ scanErrs = 0
    /\ delivered = <<>>
    /\ shifts = 0

\* ScanBuffer::shift, one call, with the outcome r of the read
ShiftWith(r) ==
    /\ buffer' = IF r.ok
                 THEN ShiftBuffer(buffer, size, scan_size, source, r.count)
                 ELSE buffer
    /\ scanErrs' = IF r.ok THEN scanErrs ELSE scanErrs + 1
    /\ source' = SubSeq(source, r.count + 1, Len(source))
    /\ delivered' = delivered \o SubSeq(source, 1, r.count)
    /\ scanLast' = [op |-> "shift", ret |-> r.count, ok |-> r.ok,
                    old |-> buffer, bytes |-> SubSeq(source, 1, r.count)]
    /\ shifts' = shifts + 1
    /\ UNCHANGED <<size, scan_size, default_value, sizeVars, cliVars>>

Shift ==
    /\ shifts < MaxShifts
    /\ \E r \in ReadOutcomes(source, scan_size) : ShiftWith(r)

\* ScanBuffer::process with the viewer |b| b.clone(): returns the window,
\* mutates nothing
Process ==
    /\ scanLast.op # "process"
    /\ scanLast' = [op |-> "process", ret |-> buffer, ok |-> TRUE,
                    old |-> buffer, bytes |-> <<>>]
    /\ UNCHANGED <<size, scan_size, default_value, buffer, source, scanErrs,
                   delivered, shifts, sizeVars, cliVars>>

NextScan == Shift \/ Process

SpecScan == InitScan /\ [][NextScan]_vars

-----------------------------------------------------------------------------
(* Size strings: parse_size and parse_pump_limit                           *)
(* A string is a sequence of characters; a character is a one-element      *)
(* name.  "d3" stands for a non-ASCII decimal digit (U+0663), which the    *)
(* Unicode-aware class \d of the regex crate matches and which             *)
(* str::parse::<i64> rejects.                                              *)

AsciiDigits == {"0", "1", "2", "5"}

UnicodeDigits == AsciiDigits \cup {"d3"}

DigitValue(c) == CASE c = "0" -> 0 [] c = "1" -> 1 [] c = "2" -> 2
                   [] c = "5" -> 5 [] OTHER -> 0

Str_KiB == <<"K", "i", "B">>
Str_MiB == <<"M", "i", "B">>
Str_GiB == <<"G", "i", "B">>
Str_TiB == <<"T", "i", "B">>
Str_PiB == <<"P", "i", "B">>

\* the strings the group ([KMGTP]iB) matches
MagnitudeSuffixes == {Str_KiB, Str_MiB, Str_GiB, Str_TiB, Str_PiB}

\* what follows the numeric prefix in the size strings explored
TailsExplored ==
    MagnitudeSuffixes \cup
    {<<>>, <<"X", "B">>, <<"K", "B">>, <<"i", "B">>, <<"K">>,
     <<"M", "i", "B", "1">>, <<"k", "i", "B">>, <<" ">>}

\* the size strings explored: every prefix of at most MaxDigits digits
\* (the empty one included) followed by every tail
SizeStrings ==
    {p \o t : p \in SeqUpTo(UnicodeDigits, MaxDigits), t \in TailsExplored}

\* bitwise exclusive or of two naturals: Rust's `^` on integers
RECURSIVE BitXor(_, _)
BitXor(a, b) ==
    IF a = 0 THEN b
    ELSE IF b = 0 THEN a
    ELSE 2 * BitXor(a \div 2, b \div 2) + (((a % 2) + (b % 2)) % 2)

AllIn(s, S) == \A i \in 1..Len(s) : s[i] \in S

\* Regex ^(\d+)([KMGTP]iB)?$ : the set of lengths k of a group 1 for which
\* the string matches (at most one: a suffix starts with a letter)
SizeRegexSplits(s) ==
    {k \in 1..Len(s) :
        /\ AllIn(SubSeq(s, 1, k), UnicodeDigits)
        /\ \/ k = Len(s)
           \/ SubSeq(s, k + 1, Len(s)) \in MagnitudeSuffixes}

\* Regex::captures: None, or the groups of the match.  Captures::len() counts
\* the groups of the regex, group 0 included, whether or not they took part.
SizeRegexCaptures(s) ==
    IF SizeRegexSplits(s) = {} THEN None
    ELSE LET k == CHOOSE k \in SizeRegexSplits(s) : TRUE
         IN Some([len |-> 3,
                  g1 |-> SubSeq(s, 1, k),
                  g2 |-> SubSeq(s, k + 1, Len(s))])

\* the decimal value of a string of ASCII digits
RECURSIVE DecimalValue(_)
DecimalValue(d) ==
    IF d = <<>> THEN 0
    ELSE 10 * DecimalValue(SubSeq(d, 1, Len(d) - 1)) + DigitValue(d[Len(d)])

\* str::parse::<i64> of a non-empty string of \d characters: an error for a
\* non-ASCII digit.  (A prefix of at most MaxDigits digits cannot exceed
\* i64::MAX, and its product with a magnitude cannot overflow.)
ParseI64(d) ==
    IF AllIn(d, AsciiDigits) THEN Ok(DecimalValue(d)) ELSE Err("ParseIntError")

\* magnitude_map as the inserts build it: `^` is exclusive or
magnitude_map ==
    [m \in MagnitudeSuffixes \cup {<<>>} |->
        CASE m = <<>>    -> BitXor(1024, 0)
          [] m = Str_KiB -> BitXor(1024, 1)
          [] m = Str_MiB -> BitXor(1024, 2)
          [] m = Str_GiB -> BitXor(1024, 3)
          [] m = Str_TiB -> BitXor(1024, 4)
          [] m = Str_PiB -> BitXor(1024, 5)]

\* HashMap::get
MapGet(m, k) == IF k \in DOMAIN m THEN Some(m[k]) ELSE None

InvalidSizeMsg(s) == <<"Warning: Invalid size string (", s, "), defaulting to 1MiB">>

\* util::parse_size: the result, and the diagnostic lines it writes
parse_size(size_str) ==
    LET default_size == 1
        captures == SizeRegexCaptures(size_str)
    IN IF captures.some
       THEN LET sz == captures.val.g1
                magnitude_str == IF captures.val.len > 3
                                 THEN captures.val.g2 ELSE <<>>
                magnitude == UnwrapOr(MapGet(magnitude_map, magnitude_str),
                                      default_size)
            IN [result |-> Ok(UnwrapOr(ParseI64(sz), default_size) * magnitude),
                errs |-> <<>>]
       ELSE [result |-> Err(InvalidSizeMsg(size_str)),
             errs |-> <<InvalidSizeMsg(size_str)>>]

\* Cli::parse_size of main.rs: the same text as util::parse_size
Cli_parse_size(size_str) ==
    LET default_size == 1
        captures == SizeRegexCaptures(size_str)
    IN IF captures.some
       THEN LET sz == captures.val.g1
                magnitude_str == IF captures.val.len > 3
                                 THEN captures.val.g2 ELSE <<>>
                magnitude == UnwrapOr(MapGet(magnitude_map, magnitude_str),
                                      default_size)
            IN [result |-> Ok(UnwrapOr(ParseI64(sz), default_size) * magnitude),
                errs |-> <<>>]
       ELSE [result |-> Err(InvalidSizeMsg(size_str)),
             errs |-> <<InvalidSizeMsg(size_str)>>]

\* Cli::parse_pump_limit
parse_pump_limit(pump_limit_arg) ==
    IF pump_limit_arg.some
    THEN UnwrapOr(Cli_parse_size(pump_limit_arg.val).result, BitXor(1024, 2))
    ELSE BitXor(1024, 2)

InitSize ==
    /\ ScanIdle
    /\ CliIdle
    /\ sizeArg \in {None} \cup {Some(s) : s \in SizeStrings}
    /\ sizePc = "start"
    /\ sizeResult = None
    /\ pump_limit = 0
    /\ sizeErrs = <<>>

\* a call of util::parse_size on the argument
ParseSize ==
    /\ sizePc = "start"
    /\ sizeArg.some
    /\ sizeResult' = Some(parse_size(sizeArg.val).result)
    /\ sizeErrs' = sizeErrs \o parse_size(sizeArg.val).errs
    /\ sizePc' = "parsed"
    /\ UNCHANGED <<sizeArg, pump_limit, scanVars, cliVars>>

\* Cli::new evaluating Cli::parse_pump_limit(args.value_of("pump-limit"))
ParsePumpLimit ==
    /\ sizePc = "start"
    /\ pump_limit' = parse_pump_limit(sizeArg)
    /\ sizeResult' = IF sizeArg.some
                     THEN Some(Cli_parse_size(sizeArg.val).result) ELSE None
    /\ sizeErrs' = IF sizeArg.some
                   THEN sizeErrs \o Cli_parse_size(sizeArg.val).errs
                   ELSE sizeErrs
    /\ sizePc' = "limit"
    /\ UNCHANGED <<sizeArg, scanVars, cliVars>>

NextSize == ParseSize \/ ParsePumpLimit

SpecSize == InitSize /\ [][NextSize]_vars

-----------------------------------------------------------------------------
(* The command line driver: files, regex engine, resolution                *)

\* the files a command line can name as arguments
NamedFiles == {"f1", "f2"}

\* the pattern file and the replacement file
PatternFile == "pf"
ReplacementFile == "rf"

Paths == NamedFiles \cup {PatternFile, ReplacementFile}

\* messages of the errors that become a CliError (CliError keeps only msg)
IoOpenReadMsg == <<"io: cannot open for reading">>
IoOpenWriteMsg == <<"io: cannot open for writing">>
IoWriteMsg == <<"io: write failed">>
IoStdinMsg == <<"io: cannot read standard input">>
RegexErrorMsg(p) == <<"regex parse error: ", p>>

\* util::read_file: File::open(path)?.read_to_string(&mut buf)
read_file(fsys, path) ==
    IF fsys[path].status = "unreadable"
    THEN Err(IoOpenReadMsg)
    ELSE Ok(fsys[path].content)

\* util::write_file: OpenOptions write+truncate, open(path)?, write_all.
\* k is the number of bytes write_all gets out before it fails
\* (k = Len(content): it does not fail).  The result and the new file system.
write_fileMutantNoWrite(fsys, path, content, k) ==
    [result |-> Ok(<<>>), fs |-> fsys]

write_file(fsys, path, content, k) ==
    IF fsys[path].status # "rw"
    THEN [result |-> Err(IoOpenWriteMsg), fs |-> fsys]
    ELSE IF k < Len(content)
    THEN [result |-> Err(IoWriteMsg),
          fs |-> [fsys EXCEPT ![path].content = SubSeq(content, 1, k)]]
    ELSE [result |-> Ok(<<>>),
          fs |-> [fsys EXCEPT ![path].content = content]]

\* ---- the regex engine (crate regex), for patterns made of literal
\* characters, the wildcard "." and groups "(" ... ")" ----

GroupChars == {"(", ")"}

\* the characters regex::escape puts a backslash before, among those explored
RegexMeta == {"(", ")", ".", "\\"}

\* number of unclosed "(" after the first i characters of p
ParenDepth(p, i) ==
    Cardinality({j \in 1..i : p[j] = "("}) - Cardinality({j \in 1..i : p[j] = ")"})

\* Regex::new(p).is_ok(): every group is closed, none is closed before it opens
RegexCompiles(p) ==
    /\ \A i \in 1..Len(p) : ParenDepth(p, i) >= 0
    /\ ParenDepth(p, Len(p)) = 0

\* the atoms a compiled pattern matches one after the other
Atoms(p) == SelectSeq(p, LAMBDA c : c \notin GroupChars)

\* "." matches any character but a line feed, another atom matches itself
AtomMatches(a, c) == IF a = "." THEN c # "\n" ELSE a = c

MatchesAt(atoms, text, i) ==
    /\ i + Len(atoms) - 1 <= Len(text)
    /\ \A j \in 1..Len(atoms) : AtomMatches(atoms[j], text[i + j - 1])

\* Regex::replace_all from position i of text: leftmost non-overlapping
\* matches; an empty match at every position when the pattern is empty
RECURSIVE ReplaceFrom(_, _, _, _)
ReplaceFrom(atoms, rep, text, i) ==
    IF i > Len(text)
    THEN (IF atoms = <<>> THEN rep ELSE <<>>)
    ELSE IF atoms = <<>>
    THEN rep \o <<text[i]>> \o ReplaceFrom(atoms, rep, text, i + 1)
    ELSE IF MatchesAt(atoms, text, i)
    THEN rep \o ReplaceFrom(atoms, rep, text, i + Len(atoms))
    ELSE <<text[i]>> \o ReplaceFrom(atoms, rep, text, i + 1)

\* regex::escape
RECURSIVE Escape(_)
Escape(p) ==
    IF p = <<>> THEN <<>>
    ELSE (IF Head(p) \in RegexMeta THEN <<"\\", Head(p)>> ELSE <<Head(p)>>)
         \o Escape(Tail(p))

\* Cli::process_text (both revisions): Regex::new(pattern)?.replace_all(..)
process_text(pat, rep, text) ==
    IF RegexCompiles(pat)
    THEN Ok(ReplaceFrom(Atoms(pat), rep, text, 1))
    ELSE Err(RegexErrorMsg(pat))

\* ---- resolution of the pattern and of the replacement ----

MissingMsg(name) == <<"No ", name, " was supplied">>

\* Cli::get_arg_or_file of main.rs: the result and the files it reads
Main_get_arg_or_file(fsys, name, arg, path) ==
    IF arg.some
    THEN [result |-> Ok(arg.val), reads |-> <<>>]
    ELSE IF path.some
    THEN [result |-> read_file(fsys, path.val), reads |-> <<path.val>>]
    ELSE [result |-> Err(MissingMsg(name)), reads |-> <<>>]

\* Cli::get_arg_or_file of replacer/cli.rs: returns a String, and panics in
\* the unwrap() of a failed read
Cli_get_arg_or_file(fsys, arg, path) ==
    IF arg.some
    THEN [panic |-> FALSE, val |-> arg.val, reads |-> <<>>]
    ELSE IF path.some
    THEN [panic |-> ~read_file(fsys, path.val).ok,
          val |-> UnwrapOr(read_file(fsys, path.val), <<>>),
          reads |-> <<path.val>>]
    ELSE [panic |-> FALSE, val |-> <<>>, reads |-> <<>>]

\* validators::validate_regex (clap validator of --pattern): the pattern
\* must compile
validate_regex(p) == RegexCompiles(p)

\* validators::validate_regex_file (clap validator of --pattern-file): the
\* file must be readable and its content must compile
validate_regex_file(fsys, path) ==
    /\ read_file(fsys, path).ok
    /\ RegexCompiles(read_file(fsys, path).val)

\* Opts::parse() of replacer/cli.rs accepts the command line: no
\* conflicts_with pair is present together and the validators pass
OptsParseAccepts(fsys, o) ==
    /\ ~(o.pattern.some /\ o.pattern_file.some)
    /\ ~(o.replacement.some /\ o.replacement_file.some)
    /\ o.pattern.some => validate_regex(o.pattern.val)
    /\ o.pattern_file.some => validate_regex_file(fsys, o.pattern_file.val)

-----------------------------------------------------------------------------
(* The command line driver: one file of the process_files loop             *)

ReadEvent(path) == [op |-> "read", path |-> path]
WriteEvent(path) == [op |-> "write", path |-> path]
StdinEvent == [op |-> "read", path |-> "stdin"]

\* debug!("Processing: {} => ", path): written only in verbose mode, no line end
ProcessingFragment(o, path) ==
    IF o.verbose THEN <<"Processing: ", path, " => ">> ELSE <<>>

\* the line a debugln! ends, after the pending fragment, in verbose mode
DebugLine(o, pending, text) ==
    IF o.verbose THEN <<pending \o text>> ELSE <<>>

\* Cli::process_file of replacer/cli.rs.  k: bytes write_all gets out.
\* result: what it returns; fs: the file system afterwards; out: what it
\* prints; lines: the stderr lines it completes; pending: the stderr fragment
\* it leaves without a line end; io: the file accesses it makes.
process_file(fsys, o, pat, rep, path, k) ==
    LET rd == read_file(fsys, path)
        res == process_text(pat, rep, rd.val)
        w == write_file(fsys, path, res.val, k)
    IN IF ~rd.ok
       THEN [result |-> rd, fs |-> fsys, out |-> <<>>, lines |-> <<>>,
             pending |-> ProcessingFragment(o, path),
             io |-> <<ReadEvent(path)>>, read |-> rd, subst |-> None]
       ELSE IF ~res.ok
       THEN [result |-> res, fs |-> fsys, out |-> <<>>,
             lines |-> DebugLine(o, ProcessingFragment(o, path), <<"skipped">>),
             pending |-> <<>>,
             io |-> <<ReadEvent(path)>>, read |-> rd, subst |-> Some(res)]
       ELSE IF o.inplace
       THEN [result |-> w.result, fs |-> w.fs, out |-> <<>>,
             lines |-> DebugLine(o, ProcessingFragment(o, path), <<"replaced">>),
             pending |-> <<>>,
             io |-> <<ReadEvent(path), WriteEvent(path)>>,
             read |-> rd, subst |-> Some(res)]
       ELSE [result |-> Ok(<<>>), fs |-> fsys, out |-> res.val,
             lines |-> DebugLine(o, ProcessingFragment(o, path), <<"replaced">>),
             pending |-> <<>>,
             io |-> <<ReadEvent(path)>>, read |-> rd, subst |-> Some(res)]

\* one iteration of the loop of Cli::process_files of replacer/cli.rs:
\* process_file, and errorln!("{}", error) on an error
Cli_loop_body(fsys, o, pat, rep, path, k) ==
    LET r == process_file(fsys, o, pat, rep, path, k)
    IN [r EXCEPT !.lines = IF r.result.ok THEN r.lines
                           ELSE r.lines \o <<r.pending \o r.result.err>>,
                 !.pending = <<>>]

\* one iteration of the loop of Cli::process_files of main.rs: read_file,
\* and_then (process_text, then write_file or print!), or_else (debugln!), ok()
Main_loop_body(fsys, o, pat, rep, path, k) ==
    LET rd == read_file(fsys, path)
        res == process_text(pat, rep, rd.val)
        w == write_file(fsys, path, res.val, k)
        frag == ProcessingFragment(o, path)
        failed(e) == <<"failed: (">> \o e \o <<")">>
    IN IF ~rd.ok
       THEN [result |-> rd, fs |-> fsys, out |-> <<>>,
             lines |-> DebugLine(o, frag, failed(rd.err)), pending |-> <<>>,
             io |-> <<ReadEvent(path)>>, read |-> rd, subst |-> None]
       ELSE IF ~res.ok
       THEN [result |-> res, fs |-> fsys, out |-> <<>>,
             lines |-> DebugLine(o, frag, <<"skipped">>)
                          \o DebugLine(o, <<>>, failed(res.err)),
             pending |-> <<>>,
             io |-> <<ReadEvent(path)>>, read |-> rd, subst |-> Some(res)]
       ELSE IF o.inplace
       THEN [result |-> w.result, fs |-> w.fs, out |-> <<>>,
             lines |-> DebugLine(o, frag, <<"replaced">>)
                          \o (IF w.result.ok THEN <<>>
                              ELSE DebugLine(o, <<>>, failed(w.result.err))),
             pending |-> <<>>,
             io |-> <<ReadEvent(path), WriteEvent(path)>>,
             read |-> rd, subst |-> Some(res)]
       ELSE [result |-> Ok(<<>>), fs |-> fsys, out |-> res.val,
             lines |-> DebugLine(o, frag, <<"replaced">>), pending |-> <<>>,
             io |-> <<ReadEvent(path)>>, read |-> rd, subst |-> Some(res)]

\* the counts of bytes write_all can get out of a content before failing
WriteCounts(content) == 0..Len(content)

-----------------------------------------------------------------------------
(* The command line driver: the run                                        *)

\* exit statuses: a normal return of main, std::process::exit(1) in main, a
\* panic of the main thread, a usage error reported by clap
ExitSuccess == 0
ExitFailure == 1
ExitPanic == 101
ExitUsage == 2

PanicMsg == <<"thread 'main' panicked at 'called `Result::unwrap()` on an `Err` value'">>
UsageMsg == <<"error: invalid command line">>

\* the command lines explored
PatternArgs == {None, Some(<<>>), Some(<<"a">>), Some(<<"(">>)}
ReplacementArgs == {None, Some(<<>>), Some(<<"x">>)}
PumpLimitArgs == {Some(<<"1">> \o Str_MiB), Some(<<"5", "X", "B">>)}

OptsExplored ==
    [inplace : BOOLEAN, escape : BOOLEAN, verbose : BOOLEAN,
     pattern : PatternArgs, pattern_file : {None, Some(PatternFile)},
     replacement : ReplacementArgs,
     replacement_file : {None, Some(ReplacementFile)},
     files : SeqUpTo(NamedFiles, MaxFiles)]

\* the file systems explored
FileOf(st, content) == [status |-> st, content |-> content]
F1States == {FileOf(st, <<"a", "b">>) : st \in {"rw", "ro", "unreadable"}}
F2States == {FileOf(st, <<"b", "a", "a">>) : st \in {"rw", "ro", "unreadable"}}
PfStates == {FileOf("rw", <<"a", "\n">>), FileOf("rw", <<"(">>),
             FileOf("unreadable", <<>>)}
RfStates == {FileOf("rw", <<"y", "\n">>), FileOf("unreadable", <<>>)}
StdinStates == {[ok |-> TRUE, content |-> <<"a", "a">>], [ok |-> FALSE]}

FileSystems ==
    {[p \in Paths |-> CASE p = "f1" -> a [] p = "f2" -> b
                        [] p = PatternFile -> c [] p = ReplacementFile -> d] :
        a \in F1States, b \in F2States, c \in PfStates, d \in RfStates}

\* the elements of a sequence
Range(q) == {q[i] : i \in 1..Len(q)}

\* a file or stream that the command line does not name is in one fixed state
Relevant(o, fsys, inp) ==
    /\ \A f \in NamedFiles \ Range(o.files) : fsys[f].status = "rw"
    /\ ~o.pattern_file.some => fsys[PatternFile] = FileOf("rw", <<"a", "\n">>)
    /\ ~o.replacement_file.some => fsys[ReplacementFile] = FileOf("rw", <<"y", "\n">>)
    /\ o.files # <<>> => inp.ok

Init ==
    /\ ScanIdle
    /\ rev \in {"main", "cli"}
    /\ opts \in OptsExplored
    /\ fs \in FileSystems
    /\ stdin \in StdinStates
    /\ Relevant(opts, fs, stdin)
    /\ sizeArg \in IF rev = "main" THEN PumpLimitArgs ELSE {None}
    /\ sizePc = "idle"
    /\ sizeResult = None
    /\ pump_limit = 0
    /\ sizeErrs = <<>>
    /\ pc = "start"
    /\ pattern = None
    /\ replacement = None
    /\ idx = 0
    /\ stdout = <<>>
    /\ stderr = <<>>
    /\ exit = None
    /\ trace = <<>>
    /\ fileLast = [idx |-> 0]
    /\ results = <<>>

ReadEvents(paths) == [i \in 1..Len(paths) |-> ReadEvent(paths[i])]

\* the process ends with status st, after writing lines to stderr
Ends(st, lines) ==
    /\ exit' = Some(st)
    /\ stderr' = stderr \o lines
    /\ pc' = "done"

\* Cli::new of main.rs
Main_Cli_new ==
    /\ rev = "main"
    /\ pc = "start"
    /\ LET p == Main_get_arg_or_file(fs, "pattern", opts.pattern,
                                     opts.pattern_file)
           r == Main_get_arg_or_file(fs, "replacement", opts.replacement,
                                     opts.replacement_file)
       IN /\ pattern' = p.result
          /\ replacement' = r.result
          /\ trace' = trace \o ReadEvents(p.reads \o r.reads)
    /\ pump_limit' = parse_pump_limit(sizeArg)
    /\ stderr' = stderr \o (IF sizeArg.some
                            THEN Cli_parse_size(sizeArg.val).errs ELSE <<>>)
    /\ pc' = "constructed"
    /\ UNCHANGED <<rev, opts, fs, stdin, idx, stdout, exit, fileLast, results,
                   sizeArg, sizePc, sizeResult, sizeErrs, scanVars>>

\* Cli::run of main.rs up to the call of process_files or process_stdin, and
\* what main does with an Err or with the Ok of escape mode
Main_run ==
    /\ rev = "main"
    /\ pc = "constructed"
    /\ IF ~pattern.ok
       THEN Ends(ExitFailure, <<pattern.err>>) /\ UNCHANGED <<stdout, idx>>
       ELSE IF opts.escape
       THEN /\ stdout' = stdout \o Escape(pattern.val)
            /\ Ends(ExitSuccess, <<>>)
            /\ UNCHANGED idx
       ELSE IF ~replacement.ok
       THEN Ends(ExitFailure, <<replacement.err>>) /\ UNCHANGED <<stdout, idx>>
       ELSE /\ pc' = IF opts.files # <<>> THEN "files" ELSE "stdin"
            /\ idx' = 1
            /\ UNCHANGED <<stdout, stderr, exit>>
    /\ UNCHANGED <<rev, opts, fs, stdin, pattern, replacement, trace, fileLast,
                   results, sizeVars, scanVars>>

\* the choices of the environment for the write of one iteration
WriteChoices(path) ==
    IF /\ opts.inplace
       /\ read_file(fs, path).ok
       /\ process_text(pattern.val, replacement.val, read_file(fs, path).val).ok
       /\ fs[path].status = "rw"
    THEN WriteCounts(process_text(pattern.val, replacement.val,
                                  read_file(fs, path).val).val)
    ELSE {0}

\* the effects of one iteration b of a process_files loop
LoopStep(b) ==
    /\ fs' = b.fs
    /\ stdout' = stdout \o b.out
    /\ stderr' = stderr \o b.lines
    /\ trace' = trace \o b.io
    /\ results' = Append(results, b.result)
    /\ fileLast' = [idx |-> idx, path |-> opts.files[idx],
                    old |-> fs[opts.files[idx]], read |-> b.read,
                    subst |-> b.subst, result |-> b.result,
                    out |-> b.out, lines |-> b.lines]
    /\ idx' = idx + 1
    /\ UNCHANGED <<rev, opts, stdin, pc, pattern, replacement, exit,
                   sizeVars, scanVars>>

\* one iteration of the for loop of Cli::process_files of main.rs
Main_process_files_stepMutantAbort ==
    /\ rev = "main"
    /\ pc = "files"
    /\ idx <= Len(opts.files)
    /\ \E k \in WriteChoices(opts.files[idx]) :
          LET b == Main_loop_body(fs, opts, pattern.val, replacement.val,
                                  opts.files[idx], k)
          IN /\ fs' = b.fs
             /\ stdout' = stdout \o b.out
             /\ stderr' = stderr \o b.lines
             /\ trace' = trace \o b.io
             /\ results' = Append(results, b.result)
             /\ fileLast' = [idx |-> idx, path |-> opts.files[idx],
                             old |-> fs[opts.files[idx]], read |-> b.read,
                             subst |-> b.subst, result |-> b.result,
                             out |-> b.out, lines |-> b.lines]
             /\ idx' = idx + 1
             /\ pc' = IF b.result.ok THEN pc ELSE "done"
             /\ exit' = IF b.result.ok THEN exit ELSE Some(ExitFailure)
             /\ UNCHANGED <<rev, opts, stdin, pattern, replacement,
                            sizeVars, scanVars>>

Main_process_files_step ==
    /\ rev = "main"
    /\ pc = "files"
    /\ idx <= Len(opts.files)
    /\ \E k \in WriteChoices(opts.files[idx]) :
          LoopStep(Main_loop_body(fs, opts, pattern.val, replacement.val,
                                  opts.files[idx], k))

\* the end of the loop of process_files: it returns Ok(()) whatever happened,
\* and so do process_pattern, run and main
Main_process_files_return ==
    /\ rev = "main"
    /\ pc = "files"
    /\ idx > Len(opts.files)
    /\ Ends(ExitSuccess, <<>>)
    /\ UNCHANGED <<rev, opts, fs, stdin, pattern, replacement, idx, stdout,
                   trace, fileLast, results, sizeVars, scanVars>>

\* Cli::process_stdin of main.rs, and what main does with its result
Main_process_stdin ==
    /\ rev = "main"
    /\ pc = "stdin"
    /\ LET dbg == DebugLine(opts, <<>>, <<"Reading stdin">>)
           res == process_text(pattern.val, replacement.val, stdin.content)
       IN IF ~stdin.ok
          THEN Ends(ExitFailure, dbg \o <<IoStdinMsg>>) /\ UNCHANGED stdout
          ELSE IF ~res.ok
          THEN Ends(ExitFailure, dbg \o <<res.err>>) /\ UNCHANGED stdout
          ELSE Ends(ExitSuccess, dbg) /\ stdout' = stdout \o res.val
    /\ trace' = Append(trace, StdinEvent)
    /\ UNCHANGED <<rev, opts, fs, stdin, pattern, replacement, idx, fileLast,
                   results, sizeVars, scanVars>>

\* Cli::new of replacer/cli.rs: Opts::parse(), then both get_arg_or_file
Cli_new ==
    /\ rev = "cli"
    /\ pc = "start"
    /\ LET p == Cli_get_arg_or_file(fs, opts.pattern, opts.pattern_file)
           r == Cli_get_arg_or_file(fs, opts.replacement,
                                    opts.replacement_file)
       IN IF ~OptsParseAccepts(fs, opts)
          THEN /\ Ends(ExitUsage, <<UsageMsg>>)
               /\ UNCHANGED <<pattern, replacement, trace>>
          ELSE IF p.panic
          THEN /\ Ends(ExitPanic, <<PanicMsg>>)
               /\ trace' = trace \o ReadEvents(p.reads)
               /\ UNCHANGED <<pattern, replacement>>
          ELSE IF r.panic
          THEN /\ Ends(ExitPanic, <<PanicMsg>>)
               /\ trace' = trace \o ReadEvents(p.reads \o r.reads)
               /\ UNCHANGED <<pattern, replacement>>
          ELSE /\ pattern' = Ok(p.val)
               /\ replacement' = Ok(r.val)
               /\ trace' = trace \o ReadEvents(p.reads \o r.reads)
               /\ pc' = "constructed"
               /\ UNCHANGED <<stderr, exit>>
    /\ UNCHANGED <<rev, opts, fs, stdin, idx, stdout, fileLast, results,
                   sizeVars, scanVars>>

\* Cli::run of replacer/cli.rs up to the call of process_files or
\* process_stdin
Cli_run ==
    /\ rev = "cli"
    /\ pc = "constructed"
    /\ IF opts.escape
       THEN /\ stdout' = stdout \o Escape(pattern.val)
            /\ Ends(ExitSuccess, <<>>)
            /\ UNCHANGED idx
       ELSE /\ pc' = IF Len(opts.files) > 0 THEN "files" ELSE "stdin"
            /\ idx' = 1
            /\ UNCHANGED <<stdout, stderr, exit>>
    /\ UNCHANGED <<rev, opts, fs, stdin, pattern, replacement, trace, fileLast,
                   results, sizeVars, scanVars>>

\* one iteration of the for loop of Cli::process_files of replacer/cli.rs
Cli_process_files_step ==
    /\ rev = "cli"
    /\ pc = "files"
    /\ idx <= Len(opts.files)
    /\ \E k \in WriteChoices(opts.files[idx]) :
          LoopStep(Cli_loop_body(fs, opts, pattern.val, replacement.val,
                                 opts.files[idx], k))

\* the end of the loop of process_files of replacer/cli.rs: Ok(())
Cli_process_files_return ==
    /\ rev = "cli"
    /\ pc = "files"
    /\ idx > Len(opts.files)
    /\ Ends(ExitSuccess, <<>>)
    /\ UNCHANGED <<rev, opts, fs, stdin, pattern, replacement, idx, stdout,
                   trace, fileLast, results, sizeVars, scanVars>>

\* Cli::process_stdin of replacer/cli.rs: an error of process_text is dropped
Cli_process_stdin ==
    /\ rev = "cli"
    /\ pc = "stdin"
    /\ LET dbg == DebugLine(opts, <<>>, <<"Reading stdin">>)
           res == process_text(pattern.val, replacement.val, stdin.content)
       IN IF ~stdin.ok
          THEN Ends(ExitFailure, dbg \o <<IoStdinMsg>>) /\ UNCHANGED stdout
          ELSE IF ~res.ok
          THEN Ends(ExitSuccess, dbg) /\ UNCHANGED stdout
          ELSE Ends(ExitSuccess, dbg) /\ stdout' = stdout \o res.val
    /\ trace' = Append(trace, StdinEvent)
    /\ UNCHANGED <<rev, opts, fs, stdin, pattern, replacement, idx, fileLast,
                   results, sizeVars, scanVars>>

Next ==
    \/ Main_Cli_new
    \/ Main_run
    \/ Main_process_files_step
    \/ Main_process_files_return
    \/ Main_process_stdin
    \/ Cli_new
    \/ Cli_run
    \/ Cli_process_files_step
    \/ Cli_process_files_return
    \/ Cli_process_stdin

Spec == Init /\ [][Next]_vars

-----------------------------------------------------------------------------
(* Claims about ScanBuffer (checked under SpecScan)                        *)

\* the bytes of a sequence converted to T, in order
ConvertAll(bytes) == [i \in 1..Len(bytes) |-> FromU8(bytes[i])]

\* C1: a shift that reads N > 0 bytes, with N <= scan_size <= size, leaves the
\* buffer equal to the old buffer without its N oldest elements followed by
\* exactly the N delivered bytes converted to T, in delivery order, and
\* returns N.
C1_ShiftDropsHeadAppendsDelivered ==
    (scanLast.op = "shift" /\ scanLast.ret > 0 /\ scan_size <= size) =>
        /\ buffer = SubSeq(scanLast.old, scanLast.ret + 1, Len(scanLast.old))
                        \o ConvertAll(scanLast.bytes)
        /\ scanLast.ret = Len(scanLast.bytes)
        /\ scanLast.bytes = SubSeq(delivered,
                                   Len(delivered) - scanLast.ret + 1,
                                   Len(delivered))

\* a short read (fewer bytes than scan_size) into a buffer that held earlier
\* data has shifted the window
C1_Witness ==
    /\ scanLast.op = "shift"
    /\ scanLast.ret > 0
    /\ scanLast.ret < scan_size
    /\ scan_size <= size
    /\ shifts >= 2
    /\ buffer # scanLast.old

\* C2: after new(size, scan_size, default) and after any sequence of shift and
\* process calls (full reads, short reads, end of stream, read errors), the
\* buffer holds exactly `size` elements.
C2_BufferLengthIsSize == Len(buffer) = size

\* a behaviour with a read error, data delivered past the capacity of the
\* buffer, and a process call
C2_Witness ==
    /\ scanErrs > 0
    /\ Len(delivered) > size
    /\ size > 0
    /\ scanLast.op = "process"

-----------------------------------------------------------------------------
(* Claims about size parsing (checked under SpecSize)                      *)

\* the k of 1024^k that a suffix stands for
MagnitudeIndex(t) ==
    CASE t = <<>> -> 0 [] t = Str_KiB -> 1 [] t = Str_MiB -> 2
      [] t = Str_GiB -> 3 [] t = Str_TiB -> 4 [] t = Str_PiB -> 5

\* v = p * 1024^k, decided by k exact divisions (1024^5 is never computed)
RECURSIVE IsTimesPow1024(_, _, _)
IsTimesPow1024(v, p, k) ==
    IF k = 0 THEN v = p
    ELSE (v % 1024) = 0 /\ IsTimesPow1024(v \div 1024, p, k - 1)

\* the string matches ^(\d+)([KMGTP]iB)?$ with a prefix that is an i64
IsValidSizeString(s) ==
    /\ SizeRegexCaptures(s).some
    /\ AllIn(SizeRegexCaptures(s).val.g1, AsciiDigits)

\* C3: for every string matching ^(\d+)([KMGTP]iB)?$ whose prefix fits the
\* integer type, parse_size returns Ok(prefix * 1024^k), k = 0 for no suffix,
\* 1 for KiB, 2 for MiB, 3 for GiB, 4 for TiB, 5 for PiB ("1MiB" gives
\* 1048576, "2KiB" gives 2048, "500" gives 500).
C3_ParseSizeIsPrefixTimesPowerOf1024 ==
    (sizePc \in {"parsed", "limit"} /\ sizeArg.some
        /\ IsValidSizeString(sizeArg.val)) =>
        /\ sizeResult.val.ok
        /\ IsTimesPow1024(sizeResult.val.val,
                          DecimalValue(SizeRegexCaptures(sizeArg.val).val.g1),
                          MagnitudeIndex(SizeRegexCaptures(sizeArg.val).val.g2))

-----------------------------------------------------------------------------
(* Claims about the command line driver (checked under Spec)               *)

\* the accesses to named files so far, in order
NamedAccesses == SelectSeq(trace, LAMBDA e : e.path \in NamedFiles)

\* the paths of the named files read so far, in order
AttemptedPaths ==
    LET reads == SelectSeq(NamedAccesses, LAMBDA e : e.op = "read")
    IN [i \in 1..Len(reads) |-> reads[i].path]

StdinWasRead == \E i \in 1..Len(trace) : trace[i].path = "stdin"

\* the run went into the loop of process_files
InFileMode == opts.files # <<>> /\ idx >= 1

\* the run went through the whole loop of process_files and ended
FileModeDone == InFileMode /\ pc = "done"

\* what the first n files contribute to standard output: the substituted text
\* of each file that succeeded and whose result is printed, in argument order
RECURSIVE PrintedUpTo(_)
PrintedUpTo(n) ==
    IF n = 0 THEN <<>>
    ELSE PrintedUpTo(n - 1) \o
         (IF results[n].ok /\ ~opts.inplace
          THEN process_text(pattern.val, replacement.val,
                            fs[opts.files[n]].content).val
          ELSE <<>>)

\* C4: in file mode every named file is attempted exactly once, strictly in
\* argument order; a failure on one file (read, pattern compile, write) never
\* prevents a later file from being processed; and standard output holds the
\* concatenation, in argument order, of the results of the successful files
\* that are printed (the results of in-place runs go to the files).
C4_FilesInOrderEachOnce ==
    InFileMode =>
        /\ idx <= Len(opts.files) + 1
        /\ AttemptedPaths = SubSeq(opts.files, 1, idx - 1)
        /\ Len(results) = idx - 1
        /\ stdout = PrintedUpTo(idx - 1)
        /\ pc = "done" => idx = Len(opts.files) + 1

\* a finished run over two files in which the first file failed and the
\* second one was still processed and printed
C4_Witness ==
    /\ FileModeDone
    /\ Len(opts.files) >= 2
    /\ ~results[1].ok
    /\ results[2].ok
    /\ ~opts.inplace
    /\ stdout # <<>>

\* C5: in file mode, if at least one named file fails in a per-file step
\* (open/read, substitution, in-place write) the run ends with a non-zero exit
\* status; the exit status is 0 only when every file succeeded.
C5_FailedFileGivesNonZeroExit ==
    (FileModeDone /\ \E i \in 1..Len(results) : ~results[i].ok) =>
        exit.val # ExitSuccess

\* get_arg_or_file was called for the pattern / for the replacement
PatternResolutionRan == pc # "start" /\ exit # Some(ExitUsage)

\* what the resolver has to return for a literal lit and a file path
ResolvedAsSpecified(name, lit, path) ==
    IF lit.some THEN Ok(lit.val)
    ELSE IF path.some
    THEN (IF fs[path.val].status = "unreadable"
          THEN Err(IoOpenReadMsg) ELSE Ok(fs[path.val].content))
    ELSE Err(MissingMsg(name))

WasRead(path) == \E i \in 1..Len(trace) : trace[i] = ReadEvent(path)

\* C6: get_arg_or_file, for the pattern and for the replacement: a literal
\* value is returned verbatim (also when empty) and the file is not read;
\* otherwise the whole content of the file is returned untrimmed, and a read
\* failure is returned as an error; with neither, the call fails with a
\* missing-value error naming the argument, never with an empty string.
C6_ResolverReturnsLiteralFileOrError ==
    PatternResolutionRan =>
        /\ pattern = ResolvedAsSpecified("pattern", opts.pattern,
                                         opts.pattern_file)
        /\ opts.pattern.some => ~WasRead(PatternFile)
        /\ (pattern # None) =>
              /\ replacement = ResolvedAsSpecified("replacement",
                                   opts.replacement, opts.replacement_file)
              /\ opts.replacement.some => ~WasRead(ReplacementFile)

\* the resolution of the pattern / of the replacement fails
PatternUnresolvable ==
    ~ResolvedAsSpecified("pattern", opts.pattern, opts.pattern_file).ok
ReplacementUnresolvable ==
    ~ResolvedAsSpecified("replacement", opts.replacement,
                         opts.replacement_file).ok

\* the lines on stderr that report an error of the run: all but the warning
\* about the pump limit
ErrorLines ==
    SelectSeq(stderr, LAMBDA l : l \notin {InvalidSizeMsg(a.val) : a \in PumpLimitArgs})

\* C7: with escape mode off, when the resolution of the pattern or of the
\* replacement fails (value missing, file unreadable), the run ends with exit
\* status 1 after one diagnostic, and before that no named file is read or
\* written, standard input is not read and nothing is written to stdout.
C7_ResolutionErrorIsFatal ==
    (~opts.escape /\ (PatternUnresolvable \/ ReplacementUnresolvable)
        /\ exit # Some(ExitUsage)) =>
        /\ NamedAccesses = <<>>
        /\ ~StdinWasRead
        /\ stdout = <<>>
        /\ pc \in {"start", "constructed", "done"}
        /\ pc = "done" => exit = Some(ExitFailure) /\ Len(ErrorLines) = 1

\* C8: a pattern that does not compile is a terminal configuration error: in
\* file mode and in stream mode the run ends with a non-zero exit status, and
\* the failure is detected before any named file is read or written.
C8_BadPatternIsTerminal ==
    (/\ pc \notin {"start"}
     /\ pattern # None /\ pattern.ok /\ ~RegexCompiles(pattern.val)
     /\ replacement.ok /\ ~opts.escape) =>
        /\ NamedAccesses = <<>>
        /\ pc = "done" => exit.val # ExitSuccess

\* C9: in escape mode, when the pattern resolves, the run writes exactly the
\* regex-escaped pattern to standard output and succeeds; no named file is
\* read or written, standard input is not read and no substitution is made,
\* whichever files are named and whether or not a replacement was supplied or
\* can be resolved.
C9_EscapeModeOnlyEscapes ==
    (opts.escape /\ ~PatternUnresolvable /\ exit # Some(ExitUsage)) =>
        LET p == ResolvedAsSpecified("pattern", opts.pattern,
                                     opts.pattern_file).val
        IN /\ NamedAccesses = <<>>
           /\ ~StdinWasRead
           /\ results = <<>>
           /\ pc \in {"start", "constructed", "done"}
           /\ pc # "done" => stdout = <<>>
           /\ pc = "done" => exit = Some(ExitSuccess) /\ stdout = Escape(p)

\* s is a proper prefix of t
IsProperPrefix(s, t) == Len(s) < Len(t) /\ s = SubSeq(t, 1, Len(s))

\* the substitution of the last iteration, computed from the file as it was
LastSubst ==
    process_text(pattern.val, replacement.val, fileLast.old.content)

LastReadOrSubstFailed == fileLast.old.status = "unreadable" \/ ~LastSubst.ok

\* C10 as stated: per file, if the substitution succeeds and in-place is
\* configured the content of the file becomes exactly the substituted text
\* and nothing is written to stdout for it; if in-place is not configured the
\* substituted text is written to stdout and the file is unchanged; if the
\* read or the substitution fails the file is unchanged and nothing is
\* written to stdout for it.
C10_RoutingAsStated ==
    fileLast.idx >= 1 =>
        IF LastReadOrSubstFailed
        THEN fs[fileLast.path] = fileLast.old /\ fileLast.out = <<>>
        ELSE IF opts.inplace
        THEN /\ fs[fileLast.path].content = LastSubst.val
             /\ fileLast.out = <<>>
        ELSE /\ fileLast.out = LastSubst.val
             /\ fs[fileLast.path] = fileLast.old

\* C10, amended: as stated, but with in-place configured the content of the
\* file becomes the substituted text only if the write succeeds; a file that
\* cannot be opened for writing is unchanged, and a write that fails after
\* the truncation leaves a proper prefix of the substituted text.
C10_RoutingWithWriteFailure ==
    fileLast.idx >= 1 =>
        IF LastReadOrSubstFailed
        THEN fs[fileLast.path] = fileLast.old /\ fileLast.out = <<>>
        ELSE IF opts.inplace
        THEN /\ fileLast.out = <<>>
             /\ fs[fileLast.path].status = fileLast.old.status
             /\ fileLast.result.ok =>
                    fs[fileLast.path].content = LastSubst.val
             /\ ~fileLast.result.ok =>
                    IF fileLast.old.status # "rw"
                    THEN fs[fileLast.path] = fileLast.old
                    ELSE IsProperPrefix(fs[fileLast.path].content,
                                        LastSubst.val)
        ELSE /\ fileLast.out = LastSubst.val
             /\ fs[fileLast.path] = fileLast.old

\* an in-place iteration whose write succeeded and changed the file
C10_Witness ==
    /\ fileLast.idx >= 1
    /\ opts.inplace
    /\ ~LastReadOrSubstFailed
    /\ fileLast.result.ok
    /\ fs[fileLast.path].content = LastSubst.val
    /\ fs[fileLast.path].content # fileLast.old.content

-----------------------------------------------------------------------------
(* Further claims about ScanBuffer (checked under SpecScan)                *)

\* the step is a call of shift
IsShiftStep == shifts' = shifts + 1

\* C11: a shift whose read delivers zero bytes (end of stream) or returns an
\* error returns 0 and leaves every element of the buffer unchanged; on a read
\* error the error is reported once (one errorln! line) and the read is not
\* retried (nothing more is taken from the stream); a read that succeeds
\* reports nothing.
C11_ExhaustedShiftLeavesBuffer ==
    [][(IsShiftStep /\ (scanLast'.bytes = <<>> \/ ~scanLast'.ok)) =>
          /\ scanLast'.ret = 0
          /\ buffer' = buffer
          /\ scanLast'.ok => scanErrs' = scanErrs
          /\ ~scanLast'.ok =>
                /\ scanErrs' = scanErrs + 1
                /\ source' = source
                /\ delivered' = delivered]_vars

\* a read error on a stream that still holds bytes, after the window has
\* taken data in
C11_Witness ==
    /\ scanLast.op = "shift"
    /\ ~scanLast.ok
    /\ scanLast.ret = 0
    /\ scanErrs = 1
    /\ source # <<>>
    /\ delivered # <<>>
    /\ size > 0
    /\ buffer = scanLast.old
    /\ buffer # VecOf(default_value, size)

\* every shift so far was a full read of scan_size bytes, without error
OnlyFullReads == scanErrs = 0 /\ Len(delivered) = shifts * scan_size

\* C12: from a new buffer whose size is a multiple of scan_size, size/scan_size
\* shifts that each deliver exactly scan_size bytes leave the buffer holding
\* all and only the bytes supplied, in their order (no default value left);
\* one more shift on the then exhausted stream returns 0 and leaves the
\* buffer unchanged.
C12_FullRefill ==
    /\ [](( /\ scan_size > 0
            /\ size % scan_size = 0
            /\ OnlyFullReads
            /\ shifts * scan_size = size) =>
              buffer = ConvertAll(delivered))
    /\ [][( /\ scan_size > 0
            /\ size % scan_size = 0
            /\ OnlyFullReads
            /\ shifts * scan_size = size
            /\ source = <<>>
            /\ IsShiftStep) =>
              /\ scanLast'.ret = 0
              /\ buffer' = buffer]_vars

\* a buffer of several chunks refilled chunk by chunk, then one shift at the
\* end of the stream
C12_Witness ==
    /\ scan_size > 0
    /\ size > scan_size
    /\ size % scan_size = 0
    /\ scanLast.op = "shift"
    /\ (shifts - 1) * scan_size = size
    /\ Len(delivered) = size
    /\ source = <<>>
    /\ scanErrs = 0
    /\ scanLast.ret = 0
    /\ buffer = ConvertAll(delivered)
    /\ \E i \in 1..size : buffer[i] # buffer[1]

\* the last n elements of a sequence
LastN(q, n) == SubSeq(q, Len(q) - n + 1, Len(q))

\* C15: for every size and scan_size, scan_size > size included, and after any
\* sequence of shifts with read lengths 0 <= N <= scan_size, the buffer is the
\* last `size` elements of: `size` copies of default_value followed by every
\* byte delivered so far, in delivery order.  So no zero byte that pads the
\* scratch buffer of a short read is ever in the window.
C15_WindowIsTailOfDelivered ==
    buffer = LastN(VecOf(default_value, size) \o ConvertAll(delivered), size)

\* a short read into a scratch buffer larger than the window, after which
\* more bytes have been delivered than the window holds
C15_Witness ==
    /\ scanLast.op = "shift"
    /\ size > 0
    /\ scan_size > size
    /\ scanLast.ret > 0
    /\ scanLast.ret < scan_size
    /\ Len(delivered) > size
    /\ default_value # FromU8(0)

-----------------------------------------------------------------------------
(* Further claims about size parsing (checked under SpecSize)              *)

\* 1 MiB, the value the warning of parse_size announces
OneMiB == 1024 * 1024

\* C13: for every size string that does not match ^(\d+)([KMGTP]iB)?$
\* ("5XB"), parse_size returns an error and parse_pump_limit ends up with
\* 1048576 (1 MiB); parse_pump_limit also gives 1048576 when there is no
\* pump-limit argument.
C13_PumpLimitFallsBackToOneMiB ==
    /\ (sizePc \in {"parsed", "limit"} /\ sizeArg.some
           /\ ~SizeRegexCaptures(sizeArg.val).some) =>
          ~sizeResult.val.ok
    /\ (sizePc = "limit"
           /\ (~sizeArg.some \/ ~SizeRegexCaptures(sizeArg.val).some)) =>
          pump_limit = OneMiB

-----------------------------------------------------------------------------
(* Further claims about the command line driver (checked under Spec)       *)

\* the verbose trace lines of a file: what was attempted, no cause of failure
TraceLines(path) ==
    {<<"Processing: ", path, " => ", "replaced">>,
     <<"Processing: ", path, " => ", "skipped">>}

\* the lines the last file put on the error stream that are not trace lines
LastDiagnostics ==
    SelectSeq(fileLast.lines, LAMBDA l : l \notin TraceLines(fileLast.path))

\* C14: in file mode each named file that fails puts exactly one diagnostic
\* line on the error stream, and the line names the path of the file and the
\* underlying cause, verbose mode on or off; a file that succeeds puts no
\* diagnostic line there.
C14_OneDiagnosticPerFailedFile ==
    fileLast.idx >= 1 =>
        IF fileLast.result.ok
        THEN LastDiagnostics = <<>>
        ELSE /\ Len(LastDiagnostics) = 1
             /\ fileLast.path \in Range(LastDiagnostics[1])
             /\ Range(fileLast.result.err) \subseteq Range(LastDiagnostics[1])

=============================================================================
